---- MODULE Spec2Model ----
(***************************************************************************)
(* Model of the storefront analyzer (src/main.py): the analyze_seller      *)
(* endpoint and the helpers it calls.  A Python dict is a TLA+ function    *)
(* whose DOMAIN is the set of keys present; a Python list is a sequence    *)
(* (index k of the list is element k+1 of the sequence).                   *)
(***************************************************************************)
EXTENDS Integers, Sequences, FiniteSets, TLC

\* ------------------------------------------------------------------------
\* Program constants
\* ------------------------------------------------------------------------
MAX_PRODUCTS == 30

DOMAIN_MAP ==
  [US |-> "US", UK |-> "UK", DE |-> "DE", FR |-> "FR", JP |-> "JP", CA |-> "CA"]

MARKETPLACE_NUMERIC ==
  [US |-> 1, UK |-> 3, DE |-> 4, FR |-> 5, JP |-> 6, CA |-> 7]

\* [0]*25, the default of stats.get('current', ...)
StatsDefaultLen == 25

\* the threshold and the .get default of the velocity tag
VelocityThreshold == 50000
VelocityDefaultRank == 999999

\* ------------------------------------------------------------------------
\* Bounds of the model
\* ------------------------------------------------------------------------
\* longest list of snapshots the detail provider returns
MaxSnapshots == 3

\* ------------------------------------------------------------------------
\* Python values that change type at run time (None / int / str)
\* ------------------------------------------------------------------------
PyNone == [t |-> "none", n |-> 0, s |-> ""]
PyInt(n) == [t |-> "int", n |-> n, s |-> ""]
PyStr(s) == [t |-> "str", n |-> 0, s |-> s]

\* bool(x)
Truthy(x) ==
  CASE x.t = "none" -> FALSE
    [] x.t = "int" -> x.n # 0
    [] x.t = "str" -> x.s # ""

\* str(x)
Str(x) ==
  CASE x.t = "none" -> "None"
    [] x.t = "int" -> ToString(x.n)
    [] x.t = "str" -> x.s

\* d.get(k, default)
Get(d, k, default) == IF k \in DOMAIN d THEN d[k] ELSE default

\* lst[:n]
Take(lst, n) == IF Len(lst) <= n THEN lst ELSE SubSeq(lst, 1, n)

\* str.upper() on the marketplace strings the requests of the model use
UpperTable == [US |-> "US", uk |-> "UK", xx |-> "XX"]
Upper(s) == UpperTable[s]

\* two-digit, zero-padded decimal
Pad2(n) == IF n < 10 THEN "0" \o ToString(n) ELSE ToString(n)
Pad3(n) == IF n < 100 THEN "0" \o Pad2(n) ELSE ToString(n)

\* f"{n:,}" for 0 <= n < 10^6
Commas(n) ==
  IF n < 1000 THEN ToString(n)
  ELSE ToString(n \div 1000) \o "," \o Pad3(n % 1000)

\* ------------------------------------------------------------------------
\* get_product_details_batch: extraction of one snapshot
\* ------------------------------------------------------------------------
\* current_data = stats.get('current', [0]*25) with stats = product.get('stats', {})
CurrentData(product) ==
  LET stats == Get(product, "stats", <<>>)
  IN  Get(stats, "current", [k \in 1..StatsDefaultLen |-> 0])

\* current_data[k] raises IndexError when the list has no slot k
InRange(current_data, k) == k < Len(current_data)
At(current_data, k) == current_data[k + 1]

\* variant of PriceCents that reads the slots in index order 0, 1, 7, 13
PriceCentsWrongOrder(current_data) ==
  IF ~InRange(current_data, 0) THEN [raised |-> TRUE, cents |-> 0]
  ELSE IF At(current_data, 0) > 0 THEN [raised |-> FALSE, cents |-> At(current_data, 0)]
  ELSE IF ~InRange(current_data, 1) THEN [raised |-> TRUE, cents |-> 0]
  ELSE IF At(current_data, 1) > 0 THEN [raised |-> FALSE, cents |-> At(current_data, 1)]
  ELSE IF ~InRange(current_data, 7) THEN [raised |-> TRUE, cents |-> 0]
  ELSE IF At(current_data, 7) > 0 THEN [raised |-> FALSE, cents |-> At(current_data, 7)]
  ELSE IF ~InRange(current_data, 13) THEN [raised |-> TRUE, cents |-> 0]
  ELSE IF At(current_data, 13) > 0 THEN [raised |-> FALSE, cents |-> At(current_data, 13)]
  ELSE [raised |-> FALSE, cents |-> 0]

\* the if/elif chain over slots 0, 13, 7, 1: the cents found, or the
\* IndexError of the first slot read that the list does not have
PriceCents(current_data) ==
  IF ~InRange(current_data, 0) THEN [raised |-> TRUE, cents |-> 0]
  ELSE IF At(current_data, 0) > 0 THEN [raised |-> FALSE, cents |-> At(current_data, 0)]
  ELSE IF ~InRange(current_data, 13) THEN [raised |-> TRUE, cents |-> 0]
  ELSE IF At(current_data, 13) > 0 THEN [raised |-> FALSE, cents |-> At(current_data, 13)]
  ELSE IF ~InRange(current_data, 7) THEN [raised |-> TRUE, cents |-> 0]
  ELSE IF At(current_data, 7) > 0 THEN [raised |-> FALSE, cents |-> At(current_data, 7)]
  ELSE IF ~InRange(current_data, 1) THEN [raised |-> TRUE, cents |-> 0]
  ELSE IF At(current_data, 1) > 0 THEN [raised |-> FALSE, cents |-> At(current_data, 1)]
  ELSE [raised |-> FALSE, cents |-> 0]

\* f"${current_price:.2f}" if current_price else 'N/A', current_price being
\* current_price_cents / 100 if current_price_cents > 0 else None
FormatPrice(cents) ==
  IF cents > 0
  THEN "$" \o ToString(cents \div 100) \o "." \o Pad2(cents % 100)
  ELSE "N/A"

\* sales_rank (None is PyNone), then 'sales_rank': sales_rank or 0
SalesRank(current_data) ==
  IF Len(current_data) > 3 /\ At(current_data, 3) > 0
  THEN PyInt(At(current_data, 3))
  ELSE PyNone

SalesRankOrZero(current_data) ==
  LET sales_rank == SalesRank(current_data)
  IN  IF Truthy(sales_rank) THEN sales_rank.n ELSE 0

\* rating_value, in tenths (the upstream value divided by 10.0)
RatingTenths(product) == Get(product, "rating", 0)

\* f"{rating_value:.1f}/5 ({review_count:,} reviews)"
RatingDisplay(tenths, review_count) ==
  ToString(tenths \div 10) \o "." \o ToString(tenths % 10) \o "/5 ("
    \o Commas(review_count) \o " reviews)"

\* image, else the first segment of imagesCSV on the CDN template, else None
\* (imagesCSV is held as the list its split(',') gives)
ImageUrl(product) ==
  IF Get(product, "image", "") # "" THEN product["image"]
  ELSE IF Get(product, "imagesCSV", <<>>) # <<>>
       THEN "https://m.media-amazon.com/images/I/" \o product["imagesCSV"][1]
       ELSE "None"

\* the body of the for loop raises (any exception is caught at line 149)
ExtractRaises(product) == PriceCents(CurrentData(product)).raised

\* the details dict of one snapshot that has an 'asin'
Details(product) ==
  LET current_data == CurrentData(product)
      review_count == Get(product, "reviewCount", 0)
  IN  [asin |-> product["asin"],
       title |-> Get(product, "title", "N/A"),
       brand |-> Get(product, "brand", "N/A"),
       category_id |-> Get(product, "rootCategory", PyStr("N/A")),
       category_name |-> "None",
       sales_rank |-> SalesRankOrZero(current_data),
       rating_value |-> RatingTenths(product),
       review_count |-> review_count,
       rating_display |-> RatingDisplay(RatingTenths(product), review_count),
       current_price |-> FormatPrice(PriceCents(current_data).cents),
       image_url |-> ImageUrl(product)]

\* the whole of get_product_details_batch on the provider's answer to
\* api.query: [] without a call for no identifiers, RuntimeError when the
\* call or any extraction raises, else the details of the snapshots that
\* have an 'asin', in the provider's order
RECURSIVE DetailsOf(_)
DetailsOf(raw) ==
  IF raw = <<>> THEN <<>>
  ELSE IF "asin" \notin DOMAIN Head(raw) THEN DetailsOf(Tail(raw))
       ELSE <<Details(Head(raw))>> \o DetailsOf(Tail(raw))

BatchRaises(answer) ==
  \/ ~answer.ok
  \/ \E k \in 1..Len(answer.products) :
        /\ "asin" \in DOMAIN answer.products[k]
        /\ ExtractRaises(answer.products[k])

GetProductDetailsBatch(asins, answer) ==
  IF asins = <<>> THEN [raised |-> FALSE, product_details |-> <<>>]
  ELSE IF BatchRaises(answer)
  THEN [raised |-> TRUE, product_details |-> <<>>]
  ELSE [raised |-> FALSE, product_details |-> DetailsOf(answer.products)]

\* ------------------------------------------------------------------------
\* get_seller_asins, get_category_name
\* ------------------------------------------------------------------------
\* asins[:max_asins] if asins else [], RuntimeError when the finder raises
GetSellerAsins(answer, max_asins) ==
  IF ~answer.ok THEN [raised |-> TRUE, asins |-> <<>>]
  ELSE [raised |-> FALSE, asins |-> Take(answer.asins, max_asins)]

GetCategoryName(answer) ==
  CASE answer.kind = "found" -> answer.name
    [] answer.kind = "missing" -> "Unknown Category"
    [] answer.kind = "error" -> "Category Lookup Failed"

\* ------------------------------------------------------------------------
\* OptiSageAPI.check_seller_eligibility, parse_eligibility_result
\* ------------------------------------------------------------------------
\* the dict returned for the outcome `http` of requests.post
CheckSellerEligibility(bearer_token, http) ==
  IF bearer_token = ""
  THEN [success |-> FALSE, error |-> "No OptiSage token provided"]
  ELSE IF http.kind = "exception"
  THEN [success |-> FALSE, error |-> "Request failed: " \o http.text]
  ELSE IF http.status_code = 200
  THEN [success |-> TRUE, data |-> http.json]
  ELSE [success |-> FALSE, error |-> "API Error " \o ToString(http.status_code),
        details |-> http.text]

\* the first item of the verdict list whose 'asin' is asin (0 when none)
RECURSIVE FirstMatch(_, _, _)
FirstMatch(items, asin, k) ==
  IF k > Len(items) THEN 0
  ELSE IF Get(items[k], "asin", "None") = asin THEN k
       ELSE FirstMatch(items, asin, k + 1)

\* variant of ParseEligibilityResult that loses the failure branch
ParseEligibilityResultAsNotFound(eligibility_data, asin) ==
  [status |-> "Not Found", reason |-> "ASIN not found in eligibility results"]

\* the status labels are the source's without their leading emoji;
\* details[:50] is details itself for the answers of the model (all shorter)
ParseEligibilityResult(eligibility_data, asin) ==
  LET not_found ==
        [status |-> "Not Found", reason |-> "ASIN not found in eligibility results"]
  IN
  IF DOMAIN eligibility_data = {}
  THEN [status |-> "API Error", reason |-> "No eligibility data received"]
  ELSE IF "data" \in DOMAIN eligibility_data /\ eligibility_data["data"].is_list
  THEN LET items == eligibility_data["data"].items
           k == FirstMatch(items, asin, 1)
       IN  IF k = 0 THEN not_found
           ELSE IF Get(items[k], "isEligible", FALSE)
           THEN [status |-> "Eligible",
                 reason |-> "Seller is eligible to sell this product"]
           ELSE [status |-> "Restricted",
                 reason |-> "Seller is not eligible to sell this product"]
  ELSE IF ~Get(eligibility_data, "success", TRUE)
  THEN [status |-> "API Error",
        reason |-> Get(eligibility_data, "error", "OptiSage API failed") \o ": "
                     \o Get(eligibility_data, "details", "") \o "..."]
  ELSE not_found

\* ------------------------------------------------------------------------
\* analyze_seller: helpers of the endpoint
\* ------------------------------------------------------------------------
\* str(req.category_id) if req.category_id else None
RequestedCategoryIdStr(category_id) ==
  IF Truthy(category_id) THEN PyStr(Str(category_id)) ELSE PyNone

\* variant of NeedsLookup without the truth test of cid
NeedsLookupIgnoringZero(cid) == ~(cid.t = "str" /\ cid.s = "N/A")

\* cid and cid != 'N/A'
NeedsLookup(cid) == Truthy(cid) /\ ~(cid.t = "str" /\ cid.s = "N/A")

\* requested_category_id_str is None or str(cid) == requested_category_id_str
PassesFilter(requested, cid) ==
  \/ requested.t = "none"
  \/ requested.t = "str" /\ Str(cid) = requested.s

\* variant of FilterAppend that inserts at the head of the list
FilterAppendAtFront(final, p, requested) ==
  IF PassesFilter(requested, p.category_id) THEN <<p>> \o final ELSE final

\* the append of line 235, under the condition of line 234
FilterAppend(final, p, requested) ==
  IF PassesFilter(requested, p.category_id) THEN Append(final, p) ELSE final

\* variant of NoAsins that lets an empty discovery through
NoAsinsNever(asins) == FALSE

\* if not asins (line 203)
NoAsins(asins) == asins = <<>>

\* not final_products and requested_category_id_str
FilterLeftNothing(final, requested) == final = <<>> /\ Truthy(requested)

\* variant of FilteredAsins that leaves the last record out
FilteredAsinsButLast(final) == [k \in 1..(Len(final) - 1) |-> final[k].asin]

\* [p.get('asin') for p in final_products]
FilteredAsins(final) == [k \in 1..Len(final) |-> final[k].asin]

\* f" in Category ID {req.category_id}" if req.category_id else ""
FilterDetail(category_id) ==
  IF Truthy(category_id) THEN " in Category ID " \o Str(category_id) ELSE ""

NoAsinsDetail(category_id) ==
  "No ASINs found for this seller" \o FilterDetail(category_id) \o "."

NoMatchDetail(category_id) ==
  "No products matched the Seller ID and the strict filter for Category ID "
    \o Str(category_id) \o " after fetching."

\* "YES (< 50K)" if p.get('sales_rank', 999999) < 50000 else "SLOW (> 50K)"
Velocity(p) ==
  IF Get(p, "sales_rank", VelocityDefaultRank) < VelocityThreshold
  THEN "YES (< 50K)"
  ELSE "SLOW (> 50K)"

\* one entry of `formatted`, idx being the 0-based position of enumerate
FormatProduct(idx, p, eligibility_data) ==
  LET parsed == ParseEligibilityResult(eligibility_data, p.asin)
  IN  [index |-> idx + 1,
       ASIN |-> p.asin,
       Title |-> Get(p, "title", "N/A"),
       Brand |-> Get(p, "brand", "N/A"),
       Category |-> Get(p, "category_name", "Unknown"),
       SalesRank |-> p.sales_rank,
       Velocity |-> Velocity(p),
       Eligibility |-> parsed.status,
       Comment |-> parsed.reason,
       Rating |-> Get(p, "rating_display", "0.0/5 (0 reviews)"),
       Reviews |-> ToString(Get(p, "review_count", 0)),
       Price |-> Get(p, "current_price", "N/A"),
       ImageURL |-> Get(p, "image_url", "N/A")]

Formatted(final, eligibility_data) ==
  [k \in 1..Len(final) |-> FormatProduct(k - 1, final[k], eligibility_data)]

\* ------------------------------------------------------------------------
\* Inputs: requests and the answers of the three providers
\* ------------------------------------------------------------------------
Requests ==
  [seller_id : {"S1"},
   marketplace : {"US", "uk", "xx"},
   category_id : {PyNone, PyInt(0), PyInt(100)}]

\* a signal array of the given length: 0 everywhere but in slots 0, 13, 7, 1, 3
SignalArray(len, v0, v13, v7, v1, v3) ==
  [k \in 1..len |->
     CASE k = 1 -> v0 [] k = 14 -> v13 [] k = 8 -> v7 [] k = 2 -> v1
       [] k = 4 -> v3 [] OTHER -> 0]

\* a full 25-slot signal array
FullCurrent(v0, v13, v7, v1, v3) == SignalArray(StatsDefaultLen, v0, v13, v7, v1, v3)

Snapshots ==
  { [asin |-> "A1", title |-> "Kettle", brand |-> "Acme", rootCategory |-> PyInt(100),
     stats |-> [current |-> FullCurrent(1999, 0, 0, 0, 37)],
     rating |-> 45, reviewCount |-> 1234, image |-> "https://img/a1.jpg"],
    [asin |-> "A2", title |-> "Lamp", rootCategory |-> PyInt(200),
     stats |-> [current |-> FullCurrent(0, 0, 0, 5, 50000)],
     imagesCSV |-> <<"a2.jpg", "a2b.jpg">>],
    [asin |-> "A3", rootCategory |-> PyInt(100)],
    [title |-> "No identifier", rootCategory |-> PyInt(100)],
    [asin |-> "A1", rootCategory |-> PyInt(200),
     stats |-> [current |-> <<0, 0, 0, 5>>]],
    [asin |-> "A2", stats |-> [current |-> FullCurrent(-1, 0, 2500, 0, 49999)],
     rating |-> 38],
    [asin |-> "A3", rootCategory |-> PyInt(0),
     stats |-> [current |-> FullCurrent(0, 0, 0, 0, -1)]] }

RECURSIVE SeqsUpTo(_, _)
SeqsUpTo(S, n) ==
  IF n = 0 THEN {<<>>}
  ELSE LET shorter == SeqsUpTo(S, n - 1)
       IN  shorter \cup {Append(q, x) : q \in shorter, x \in S}

\* api.product_finder: raises, or returns a list of identifiers
DiscoveryAnswers ==
  { [ok |-> FALSE, asins |-> <<>>],
    [ok |-> TRUE, asins |-> <<>>],
    [ok |-> TRUE, asins |-> <<"A1", "A2", "A3">>] }

\* api.query: raises, or returns a list of raw snapshots
EnrichmentAnswers ==
  { [ok |-> FALSE, products |-> <<>>] }
    \cup { [ok |-> TRUE, products |-> q] : q \in SeqsUpTo(Snapshots, MaxSnapshots) }

\* api.category_lookup: a name, no entry for the id, or an exception
LookupAnswers ==
  { [kind |-> "found", name |-> "Home"],
    [kind |-> "missing", name |-> ""],
    [kind |-> "error", name |-> ""] }

\* resp.json() of a 200 answer: a verdict list, or a payload that is no list
VerdictPayloads ==
  { [is_list |-> TRUE, items |-> <<>>],
    [is_list |-> TRUE,
     items |-> << [asin |-> "A1", isEligible |-> TRUE],
                  [asin |-> "A2", isEligible |-> FALSE] >>],
    [is_list |-> TRUE,
     items |-> << [asin |-> "A3"], [asin |-> "A1", isEligible |-> FALSE] >>],
    [is_list |-> FALSE, items |-> <<>>] }

\* requests.post: a response with a status code, or a RequestException
EligibilityAnswers ==
  { [kind |-> "response", status_code |-> 200, json |-> j, text |-> ""] :
      j \in VerdictPayloads }
    \cup { [kind |-> "response", status_code |-> 500,
            json |-> [is_list |-> FALSE, items |-> <<>>],
            text |-> "Internal Server Error"],
           [kind |-> "exception", status_code |-> 0,
            json |-> [is_list |-> FALSE, items |-> <<>>],
            text |-> "timeout"] }

\* ------------------------------------------------------------------------
\* State of one request to analyze_seller
\* ------------------------------------------------------------------------
VARIABLES
  req,              \* the SellerRequest
  OPTISAGE_TOKEN,   \* the credential read at import
  pc,               \* where the handler stands
  marketplace,      \* req.marketplace.upper()
  requested_category_id_str,
  asins,            \* the discovered identifiers
  query_answer,     \* what api.query answered (kept for the properties)
  products,         \* the list get_product_details_batch returned
  i,                \* position of the category loop in products (1-based)
  final_products,
  eligibility_data,
  response,         \* the returned body (Products, Total_Products, ...)
  error,            \* the HTTPException raised: status 0 when none
  calls             \* the remote calls issued so far, in order

vars ==
  <<req, OPTISAGE_TOKEN, pc, marketplace, requested_category_id_str, asins,
    query_answer, products, i, final_products, eligibility_data, response,
    error, calls>>

NoError == [status_code |-> 0, detail |-> ""]
NoAnswer == [ok |-> FALSE, products |-> <<>>]
NoResponse ==
  [Seller |-> "", Marketplace |-> "", Filter_Category_ID |-> PyNone,
   Total_Products |-> 0, Products |-> <<>>]
\* a remote call; marketplace_id is the numeric code of the eligibility
\* payload, MARKETPLACE_NUMERIC.get(marketplace, 1), and 0 in the other calls
Call(svc, seller, ids, cid) ==
  [svc |-> svc, seller_id |-> seller, asins |-> ids, category_id |-> cid,
   marketplace_id |->
     IF svc = "eligibility" THEN Get(MARKETPLACE_NUMERIC, marketplace, 1) ELSE 0]

Init ==
  /\ req \in Requests
  /\ OPTISAGE_TOKEN = "token"
  /\ pc = "validate"
  /\ marketplace = ""
  /\ requested_category_id_str = PyNone
  /\ asins = <<>>
  /\ query_answer = NoAnswer
  /\ products = <<>>
  /\ i = 1
  /\ final_products = <<>>
  /\ eligibility_data = [success |-> FALSE]
  /\ response = NoResponse
  /\ error = NoError
  /\ calls = <<>>

Raise(status_code, detail) ==
  /\ error' = [status_code |-> status_code, detail |-> detail]
  /\ pc' = "done"

\* ------------------------------------------------------------------------
\* analyze_seller, one action per stage (each runs up to the next remote call)
\* ------------------------------------------------------------------------
\* lines 185-189: upper-case and validate the marketplace
Validate ==
  /\ pc = "validate"
  /\ marketplace' = Upper(req.marketplace)
  /\ IF marketplace' \notin DOMAIN DOMAIN_MAP
     THEN /\ Raise(400, "Unsupported marketplace '" \o req.marketplace \o "'.")
          /\ UNCHANGED requested_category_id_str
     ELSE /\ requested_category_id_str' = RequestedCategoryIdStr(req.category_id)
          /\ pc' = "discovery"
          /\ UNCHANGED error
  /\ UNCHANGED <<req, OPTISAGE_TOKEN, asins, query_answer, products, i,
                 final_products, eligibility_data, response, calls>>

\* lines 191-205: discovery, its 502 and the not-found of an empty result
Discover ==
  /\ pc = "discovery"
  /\ \E answer \in DiscoveryAnswers :
       LET got == GetSellerAsins(answer, MAX_PRODUCTS)
       IN  /\ calls' = Append(calls, Call("discovery", req.seller_id, <<>>,
                                          req.category_id))
           /\ IF got.raised
              THEN /\ Raise(502, "Keepa ASIN Fetch Error: ASIN fetch error")
                   /\ UNCHANGED asins
              ELSE /\ asins' = got.asins
                   /\ IF NoAsins(got.asins)
                      THEN Raise(404, NoAsinsDetail(req.category_id))
                      ELSE pc' = "enrichment" /\ UNCHANGED error
  /\ UNCHANGED <<req, OPTISAGE_TOKEN, marketplace, requested_category_id_str,
                 query_answer, products, i, final_products, eligibility_data,
                 response>>

\* lines 207-214: enrichment and its 502
EnrichFrom(answers) ==
  /\ pc = "enrichment"
  /\ \E answer \in answers :
       LET got == GetProductDetailsBatch(asins, answer)
       IN  /\ calls' = IF asins = <<>> THEN calls
                       ELSE Append(calls, Call("enrichment", req.seller_id, asins,
                                               PyNone))
           /\ query_answer' = answer
           /\ IF got.raised
              THEN /\ Raise(502, "Keepa Product Details Error: Product details error")
                   /\ UNCHANGED products
              ELSE /\ products' = got.product_details
                   /\ pc' = "resolve"
                   /\ UNCHANGED error
  /\ i' = 1
  /\ final_products' = <<>>
  /\ UNCHANGED <<req, OPTISAGE_TOKEN, marketplace, requested_category_id_str,
                 asins, eligibility_data, response>>

\* lines 216-235: one turn of the loop, for a record whose category is looked up
ResolveWithLookup ==
  /\ pc = "resolve"
  /\ i <= Len(products)
  /\ NeedsLookup(products[i].category_id)
  /\ \E answer \in LookupAnswers :
       LET cid == products[i].category_id
           p == [products[i] EXCEPT !.category_name =
                   IF cid.t = "int" THEN GetCategoryName(answer)
                   ELSE "Category lookup failed"]
       IN  /\ calls' = IF cid.t = "int"
                       THEN Append(calls, Call("category", req.seller_id, <<>>, cid))
                       ELSE calls
           /\ products' = [products EXCEPT ![i] = p]
           /\ final_products' = FilterAppend(final_products, p, requested_category_id_str)
  /\ i' = i + 1
  /\ UNCHANGED <<req, OPTISAGE_TOKEN, pc, marketplace, requested_category_id_str,
                 asins, query_answer, eligibility_data, response, error>>

\* lines 216-235: one turn of the loop, for a record named 'Unknown'
ResolveWithoutLookup ==
  /\ pc = "resolve"
  /\ i <= Len(products)
  /\ ~NeedsLookup(products[i].category_id)
  /\ LET cid == products[i].category_id
         p == [products[i] EXCEPT !.category_name = "Unknown"]
     IN  /\ products' = [products EXCEPT ![i] = p]
         /\ final_products' = FilterAppend(final_products, p, requested_category_id_str)
  /\ i' = i + 1
  /\ UNCHANGED <<req, OPTISAGE_TOKEN, pc, marketplace, requested_category_id_str,
                 asins, query_answer, eligibility_data, response, error, calls>>

\* lines 237-239: the not-found of an empty post-filter set
FilterCheck ==
  /\ pc = "resolve"
  /\ i > Len(products)
  /\ IF FilterLeftNothing(final_products, requested_category_id_str)
     THEN Raise(404, NoMatchDetail(req.category_id))
     ELSE pc' = "eligibility" /\ UNCHANGED error
  /\ UNCHANGED <<req, OPTISAGE_TOKEN, marketplace, requested_category_id_str,
                 asins, query_answer, products, i, final_products,
                 eligibility_data, response, calls>>

\* lines 241-278: the eligibility call, the formatting and the return
Eligibility ==
  /\ pc = "eligibility"
  /\ \E http \in EligibilityAnswers :
       LET filtered_asins == FilteredAsins(final_products)
           data == CheckSellerEligibility(OPTISAGE_TOKEN, http)
           formatted == Formatted(final_products, data)
       IN  /\ calls' = IF OPTISAGE_TOKEN = "" THEN calls
                       ELSE Append(calls, Call("eligibility", req.seller_id,
                                               filtered_asins, PyNone))
           /\ eligibility_data' = data
           /\ response' =
                [Seller |-> req.seller_id,
                 Marketplace |-> marketplace,
                 Filter_Category_ID |->
                   IF Truthy(req.category_id) THEN req.category_id
                   ELSE PyStr("None"),
                 Total_Products |-> Len(formatted),
                 Products |-> formatted]
  /\ pc' = "done"
  /\ UNCHANGED <<req, OPTISAGE_TOKEN, marketplace, requested_category_id_str,
                 asins, query_answer, products, i, final_products, error>>

Enrich == EnrichFrom(EnrichmentAnswers)

Next ==
  \/ Validate
  \/ Discover
  \/ Enrich
  \/ ResolveWithLookup
  \/ ResolveWithoutLookup
  \/ FilterCheck
  \/ Eligibility

Spec == Init /\ [][Next]_vars

\* ------------------------------------------------------------------------
\* The same handler on one snapshot drawn from every combination of the
\* price signals (the specification of the price properties)
\* ------------------------------------------------------------------------
SignalValues == {-1, 0, 5, 1999}

PriceSnapshots ==
  { [asin |-> "A1", rootCategory |-> PyInt(100),
     stats |-> [current |-> SignalArray(len, v0, v13, v7, v1, 37)]] :
      len \in {14, StatsDefaultLen},
      v0 \in SignalValues, v13 \in SignalValues,
      v7 \in SignalValues, v1 \in SignalValues }
    \cup
  { [asin |-> "A2", stats |-> [current |-> SignalArray(14, v0, 0, 0, v1, 0)]] :
      v0 \in SignalValues, v1 \in SignalValues }

PriceAnswers == { [ok |-> TRUE, products |-> <<snap>>] : snap \in PriceSnapshots }

InitPrices ==
  /\ Init
  /\ req.marketplace = "US"
  /\ req.category_id = PyNone

EnrichPrices == EnrichFrom(PriceAnswers)

NextPrices ==
  \/ Validate
  \/ Discover
  \/ EnrichPrices
  \/ ResolveWithLookup
  \/ ResolveWithoutLookup
  \/ FilterCheck
  \/ Eligibility

SpecPrices == InitPrices /\ [][NextPrices]_vars

\* ------------------------------------------------------------------------
\* Vocabulary of the properties
\* ------------------------------------------------------------------------
Succeeded == pc = "done" /\ error.status_code = 0
Failed == error.status_code # 0

IsCall(svc, c) == c.svc = svc
CallsTo(svc) == SelectSeq(calls, LAMBDA c : IsCall(svc, c))

EnrichmentError ==
  /\ error.status_code = 502
  /\ error.detail = "Keepa Product Details Error: Product details error"
DiscoveryError ==
  /\ error.status_code = 502
  /\ error.detail = "Keepa ASIN Fetch Error: ASIN fetch error"
NoAsinsError ==
  error.status_code = 404 /\ error.detail = NoAsinsDetail(req.category_id)
NoMatchError ==
  error.status_code = 404 /\ error.detail = NoMatchDetail(req.category_id)

\* the category loop has run over every enriched record
LoopFinished == pc \in {"resolve", "eligibility", "done"} /\ i > Len(products)
                  /\ ~EnrichmentError

\* the category id of a record equals the integer n
HasCategory(p, n) == p.category_id.t = "int" /\ p.category_id.n = n

\* the raw snapshots that have an identifier and that the strict filter, as
\* line 234 applies it, keeps: in the provider's order
Kept(snap) ==
  /\ "asin" \in DOMAIN snap
  /\ PassesFilter(requested_category_id_str, Get(snap, "rootCategory", PyStr("N/A")))
KeptSnapshots == SelectSeq(query_answer.products, Kept)

\* ------------------------------------------------------------------------
\* Properties
\* ------------------------------------------------------------------------

\* C1: in a successful response every product satisfies "no category filter
\* was requested, or its categoryId equals the requested categoryId" (any
\* integer categoryId, 0 included); the k-th product is the k-th record of
\* final_products.
C1_StrictReconciliation ==
  Succeeded =>
    /\ Len(response.Products) = Len(final_products)
    /\ \A k \in 1..Len(final_products) :
         \/ req.category_id.t = "none"
         \/ HasCategory(final_products[k], req.category_id.n)

\* C2: once the strict filter has been passed, a failing eligibility provider
\* (non-200, network error, missing credential) never fails the request:
\* check_seller_eligibility returns success False, the response is successful
\* and holds every filtered record, in order, each with status "API Error".
C2_EligibilityAbsorbed ==
  /\ \A http \in EligibilityAnswers :
       /\ ~CheckSellerEligibility("", http).success
       /\ (http.kind = "exception" \/ http.status_code # 200)
            => ~CheckSellerEligibility(OPTISAGE_TOKEN, http).success
       /\ \A k \in 1..Len(final_products) :
            ParseEligibilityResult(CheckSellerEligibility("", http),
                                   final_products[k].asin).status = "API Error"
  /\ (pc = "done" /\ CallsTo("eligibility") # <<>>) =>
       /\ error = NoError
       /\ ~eligibility_data.success =>
            /\ response.Total_Products = Len(final_products)
            /\ Len(response.Products) = Len(final_products)
            /\ \A k \in 1..Len(final_products) :
                 /\ response.Products[k].ASIN = final_products[k].asin
                 /\ response.Products[k].Title = final_products[k].title
                 /\ response.Products[k].Eligibility = "API Error"

\* C2 happens: an HTTP 500 from the eligibility provider with two filtered records
C2_Witness ==
  /\ Succeeded
  /\ "error" \in DOMAIN eligibility_data
  /\ eligibility_data["error"] = "API Error 500"
  /\ Len(response.Products) >= 2
  /\ response.Products[2].Eligibility = "API Error"

\* C3: the enrichment error (502 "Keepa Product Details Error") occurs only
\* when the provider call failed as a whole: never because of one snapshot
\* (missing stats, short signal array, ...), and snapshots without an
\* identifier are skipped.
C3_EnrichmentFailsOnlyOnProviderFailure ==
  /\ EnrichmentError => ~query_answer.ok
  /\ (LoopFinished /\ query_answer.ok) =>
       Len(products) =
         Len(SelectSeq(query_answer.products, LAMBDA snap : "asin" \in DOMAIN snap))

\* C4: in a successful response the velocity tag is the fast one exactly when
\* the sales rank is present (output non-zero), positive and below 50000; an
\* absent rank (output as SalesRank 0) is slow.
C4_VelocityTag ==
  Succeeded =>
    \A k \in 1..Len(response.Products) :
      LET out == response.Products[k]
      IN  /\ (out.Velocity = "YES (< 50K)")
               <=> (out.SalesRank > 0 /\ out.SalesRank < VelocityThreshold)
          /\ out.Velocity \in {"YES (< 50K)", "SLOW (> 50K)"}

\* C5: a successful run calls the eligibility provider exactly once, as its
\* last remote call (after the filter loop), with the request's seller id and
\* exactly the identifiers of the post-filter records in order; a run that
\* ends in an error never calls it, and no run calls it twice.
C5_BatchedEligibility ==
  LET elig == CallsTo("eligibility")
      kept == SelectSeq(products,
                LAMBDA p : PassesFilter(requested_category_id_str, p.category_id))
  IN  /\ Len(elig) <= 1
      /\ Failed => elig = <<>>
      /\ pc # "done" => elig = <<>>
      /\ Succeeded =>
           /\ Len(elig) = 1
           /\ calls[Len(calls)].svc = "eligibility"
           /\ elig[1].seller_id = req.seller_id
           /\ Len(elig[1].asins) = Len(kept)
           /\ \A k \in 1..Len(kept) : elig[1].asins[k] = kept[k].asin
           /\ Len(response.Products) = Len(kept)

\* C5 happens: a successful run in which the filter removed a record and two
\* records were sent to the eligibility provider
C5_Witness ==
  /\ Succeeded
  /\ Len(final_products) = 2
  /\ Len(products) = 3
  /\ CallsTo("eligibility") # <<>>
  /\ Len(CallsTo("eligibility")[1].asins) = 2

\* C6: the remote calls are a prefix of discovery, enrichment, category
\* lookups, eligibility; an invalid marketplace makes no call; a discovery
\* failure or an empty discovery ends the run before enrichment; an
\* enrichment failure ends it before any lookup or eligibility call; a run
\* that raised returns no product list.
StageOf(c) ==
  CASE c.svc = "discovery" -> 1
    [] c.svc = "enrichment" -> 2
    [] c.svc = "category" -> 3
    [] c.svc = "eligibility" -> 4

C6_StageOrder ==
  /\ \A k \in 1..Len(calls) :
       /\ k = 1 => StageOf(calls[k]) = 1
       /\ k = 2 => StageOf(calls[k]) = 2
       /\ k > 2 => StageOf(calls[k]) \in {3, 4}
       /\ (k < Len(calls)) => StageOf(calls[k]) < 4
  /\ error.status_code = 400 => calls = <<>>
  /\ (DiscoveryError \/ NoAsinsError) => Len(calls) = 1
  /\ Len(calls) >= 2 => asins # <<>>
  /\ pc \in {"enrichment", "resolve", "eligibility"} => asins # <<>>
  /\ EnrichmentError => Len(calls) = 2
  /\ Failed => (pc = "done" /\ response = NoResponse)
  /\ Succeeded =>
       /\ Len(calls) >= 3
       /\ StageOf(calls[Len(calls)]) = 4
       /\ marketplace \in DOMAIN DOMAIN_MAP

\* C6 happens: a full successful trace with lookups, and the stage it is about
C6_Witness ==
  /\ Succeeded
  /\ Len(calls) = 5
  /\ calls[3].svc = "category"
  /\ calls[4].svc = "category"

\* C7: with a category filter requested (any integer categoryId), a non-empty
\* discovery, a successful enrichment and no enriched record of the requested
\* categoryId, the run ends in the post-filter not-found error (never in a
\* successful response), whose message differs from the no-identifiers one.
C7_PostFilterNotFound ==
  ( /\ pc = "done"
    /\ req.category_id.t = "int"
    /\ asins # <<>>
    /\ Len(calls) >= 2
    /\ ~EnrichmentError
    /\ \A k \in 1..Len(products) : ~HasCategory(products[k], req.category_id.n) )
  => /\ NoMatchError
     /\ error.detail # NoAsinsDetail(req.category_id)

\* C8: for a snapshot with a full signal array the price is the first
\* strictly positive value among slots 0, 13, 7, 1 (in that order), in units
\* with two decimals; "N/A" when none of the four is strictly positive.
PriceSlots == <<0, 13, 7, 1>>

C8_PriceFallbackChain ==
  (LoopFinished /\ query_answer.ok) =>
    \A k \in 1..Len(products) :
      LET current == KeptSnapshots[k]["stats"]["current"]
          positive == {n \in 1..4 : current[PriceSlots[n] + 1] > 0}
          first == CHOOSE n \in positive : \A m \in positive : n <= m
          cents == current[PriceSlots[first] + 1]
      IN  IF positive = {}
          THEN products[k].current_price = "N/A"
          ELSE products[k].current_price =
                 "$" \o ToString(cents \div 100) \o "."
                   \o (IF cents % 100 < 10 THEN "0" ELSE "") \o ToString(cents % 100)

\* C8 happens: only the last slot of the chain is positive, a higher one is negative
C8_Witness ==
  /\ Succeeded
  /\ Len(response.Products) = 1
  /\ response.Products[1].Price = "$0.05"
  /\ query_answer.products[1]["stats"]["current"][1] = -1
  /\ query_answer.products[1]["stats"]["current"][14] = 0

\* C9: the product list of a successful response is the subsequence of the
\* provider's snapshots that have an identifier and pass the strict filter,
\* in the provider's order; the k-th product has index k and Total_Products
\* is the length of the list.
C9_OrderAndIndex ==
  Succeeded =>
    /\ Len(response.Products) = Len(KeptSnapshots)
    /\ response.Total_Products = Len(response.Products)
    /\ \A k \in 1..Len(KeptSnapshots) :
         /\ response.Products[k].index = k
         /\ response.Products[k].ASIN = KeptSnapshots[k]["asin"]
         /\ response.Products[k].Title = Get(KeptSnapshots[k], "title", "N/A")
         /\ response.Products[k].Price = Details(KeptSnapshots[k]).current_price

\* C9 happens: of three snapshots returned, two distinct products are left,
\* in the order returned
C9_Witness ==
  /\ Succeeded
  /\ Len(query_answer.products) = 3
  /\ Len(response.Products) = 2
  /\ response.Products[1].ASIN # response.Products[2].ASIN
  /\ response.Products[2].index = 2

\* C10 as stated: once the category loop has finished, the number of lookups
\* equals the number of distinct categoryIds (present and non-zero: the ones
\* that have a name to look up) among the filtered records, no lookup was
\* issued for a removed record and no categoryId was looked up twice.
C10_LookupsPerDistinctFilteredCategory ==
  LoopFinished =>
    LET looked == CallsTo("category")
        filtered == {final_products[k].category_id.n :
                       k \in {j \in 1..Len(final_products) :
                                /\ final_products[j].category_id.t = "int"
                                /\ final_products[j].category_id.n # 0}}
    IN  /\ Len(looked) = Cardinality(filtered)
        /\ \A k \in 1..Len(looked) : looked[k].category_id.n \in filtered
        /\ \A k, m \in 1..Len(looked) :
             k # m => looked[k].category_id.n # looked[m].category_id.n

\* C10 amended: at every point of the category loop the lookups issued are,
\* in order, one per enriched record handled so far whose categoryId is
\* present and non-zero: whether or not the strict filter keeps the record,
\* and again for a categoryId already looked up.
C10_LookupPerEnrichedRecord ==
  (pc \in {"resolve", "eligibility", "done"} /\ ~EnrichmentError) =>
    LET looked == CallsTo("category")
        handled == SubSeq(products, 1, i - 1)
        named == SelectSeq(handled,
                   LAMBDA p : p.category_id.t = "int" /\ p.category_id.n # 0)
    IN  /\ Len(looked) = Len(named)
        /\ \A k \in 1..Len(named) : looked[k].category_id = named[k].category_id

\* C10 happens: a record the filter removed was looked up, and one categoryId twice
C10_Witness ==
  /\ Succeeded
  /\ Len(CallsTo("category")) = 3
  /\ Len(final_products) = 1
  /\ CallsTo("category")[1].category_id = CallsTo("category")[2].category_id

====
